---- MODULE Spec2Model ----
(***************************************************************************)
(* Constant-expression evaluation of src/types/eval_const.ts:             *)
(*   - the Value model (bigint | Decimal | boolean | string) with          *)
(*     promoteToDec / demoteFromDec,                                       *)
(*   - the literal, unary and binary operator evaluators,                  *)
(*   - the classifier isConstant and the evaluator evalConstantExpr, run   *)
(*     as a call-stack machine over an expression tree, one step per call, *)
(*     return, throw and catch.                                            *)
(***************************************************************************)
EXTENDS Integers, Sequences, FiniteSets, TLC

(***************************************************************************)
(* Bounds of the model.                                                    *)
(***************************************************************************)
\* Significant digits kept by Decimal operations.  The program sets 100
\* (Decimal.set, line 25); the model keeps the rounding rule and scales the
\* number of digits down so that coefficients fit the checker's integers.
Precision == 2

\* Largest number of nodes of an expression tree handed to evalConstantExpr.
MaxNodes == 4

\* Largest number of chained operator applications in the operator-level
\* specification (each application may take the previous result as operand).
MaxOps == 1

\* Largest magnitude of an integral exponent of "**" and of a shift amount.
MaxExponent == 3

(***************************************************************************)
(* Integer helpers.                                                        *)
(***************************************************************************)
Abs(n) == IF n < 0 THEN 0 - n ELSE n

Sgn(n) == IF n < 0 THEN 0 - 1 ELSE IF n = 0 THEN 0 ELSE 1

Min(a, b) == IF a < b THEN a ELSE b

Max(a, b) == IF a < b THEN b ELSE a

\* Number of decimal digits of a natural number (1 for 0).
RECURSIVE NumDigits(_)
NumDigits(m) == IF m < 10 THEN 1 ELSE 1 + NumDigits(m \div 10)

\* 10^k mod m, without computing 10^k.
RECURSIVE Pow10Mod(_, _)
Pow10Mod(k, m) == IF k = 0 THEN 1 % m ELSE (10 * Pow10Mod(k - 1, m)) % m

\* Integers the model represents: those a Decimal of Precision digits holds
\* exactly, as the program's 100 digits hold every 256-bit integer.
MaxInt == 10 ^ Precision - 1

(***************************************************************************)
(* type Value = Decimal | boolean | string | bigint                        *)
(***************************************************************************)
Integer(n) == [t |-> "Integer", n |-> n]

Boolean(b) == [t |-> "Boolean", b |-> b]

String(s) == [t |-> "String", s |-> s]

\* A finite Decimal is sign * coefficient * 10^exponent, stored as decimal.js
\* stores it: without trailing zeros.  k is "fin", "Inf" or "NaN"; c carries
\* the signed coefficient (the sign alone for an infinity).
RECURSIVE StripZeros(_, _)
StripZeros(m, e) ==
    IF m = 0 THEN <<0, 0>>
    ELSE IF m % 10 = 0 THEN StripZeros(m \div 10, e + 1)
    ELSE <<m, e>>

\* new Decimal(<digits>): exact, no rounding to precision.
DecimalOf(s, m, e) ==
    LET z == StripZeros(m, e)
    IN  [t |-> "Decimal", k |-> "fin", c |-> s * z[1], e |-> z[2]]

DecNaN == [t |-> "Decimal", k |-> "NaN", c |-> 0, e |-> 0]

DecInf(s) == [t |-> "Decimal", k |-> "Inf", c |-> s, e |-> 0]

DecZero == DecimalOf(1, 0, 0)

DecOne == DecimalOf(1, 1, 0)

\* decimal.js finalise(): round a result to Precision significant digits,
\* ROUND_HALF_UP (the library's default rounding mode 4).
Finalise(s, m, e) ==
    LET d == NumDigits(m)
    IN  IF d <= Precision THEN DecimalOf(s, m, e)
        ELSE LET drop == d - Precision
                 q == m \div (10 ^ drop)
                 r == m % (10 ^ drop)
             IN  DecimalOf(s, IF 2 * r >= 10 ^ drop THEN q + 1 ELSE q, e + drop)

IsFinite(d) == d.k = "fin"

IsZeroDec(d) == d.k = "fin" /\ d.c = 0

\* Decimal.isInt(): false for NaN and the infinities.
IsInt(d) == d.k = "fin" /\ (d.c = 0 \/ d.e >= 0)

\* Position of the leading digit: |d| < 10^LeadPos(d), |d| >= 10^(LeadPos(d)-1).
LeadPos(d) == NumDigits(Abs(d.c)) + d.e

(***************************************************************************)
(* decimal.js arithmetic, as far as evalBinaryImpl and evalUnaryImpl use   *)
(* it: cmp/eq, negated, plus, minus, times, div, modulo, pow.              *)
(***************************************************************************)
\* Compare the magnitudes of two finite non-zero Decimals: -1, 0 or 1.
CmpMag(a, b) ==
    IF LeadPos(a) # LeadPos(b) THEN (IF LeadPos(a) < LeadPos(b) THEN 0 - 1 ELSE 1)
    ELSE LET e == Min(a.e, b.e)
             x == Abs(a.c) * 10 ^ (a.e - e)
             y == Abs(b.c) * 10 ^ (b.e - e)
         IN  IF x < y THEN 0 - 1 ELSE IF x = y THEN 0 ELSE 1

\* Rank of a non-NaN Decimal on the extended line: -2 for -Infinity, 2 for
\* +Infinity, the sign for a finite value.
Rank(d) == IF d.k = "Inf" THEN 2 * d.c ELSE Sgn(d.c)

\* Decimal.cmp(): -1, 0, 1, or 2 standing for NaN (either operand NaN).
Cmp(a, b) ==
    IF a.k = "NaN" \/ b.k = "NaN" THEN 2
    ELSE IF Rank(a) # Rank(b) THEN (IF Rank(a) < Rank(b) THEN 0 - 1 ELSE 1)
    ELSE IF a.k = "Inf" \/ a.c = 0 THEN 0
    ELSE Sgn(a.c) * CmpMag(a, b)

\* Decimal.negated()
Negated(d) == [d EXCEPT !.c = 0 - d.c]

\* Sum of two finite non-zero Decimals, a the one of larger exponent.  When b
\* lies below half a unit of the last kept digit of a, the sum rounds to a.
PlusOrdered(a, b) ==
    IF b.e + NumDigits(Abs(b.c)) <= LeadPos(a) - 2 - Precision
    THEN Finalise(Sgn(a.c), Abs(a.c), a.e)
    ELSE LET sum == a.c * 10 ^ (a.e - b.e) + b.c
         IN  Finalise(IF sum < 0 THEN 0 - 1 ELSE 1, Abs(sum), b.e)

\* Decimal.plus()
Plus(a, b) ==
    IF a.k = "NaN" \/ b.k = "NaN" THEN DecNaN
    ELSE IF a.k = "Inf" THEN (IF b.k = "Inf" /\ b.c # a.c THEN DecNaN ELSE a)
    ELSE IF b.k = "Inf" THEN b
    ELSE IF a.c = 0 THEN Finalise(IF b.c < 0 THEN 0 - 1 ELSE 1, Abs(b.c), b.e)
    ELSE IF b.c = 0 THEN Finalise(IF a.c < 0 THEN 0 - 1 ELSE 1, Abs(a.c), a.e)
    ELSE IF a.e >= b.e THEN PlusOrdered(a, b)
    ELSE PlusOrdered(b, a)

\* Decimal.minus()
Minus(a, b) == Plus(a, Negated(b))

\* Decimal.times()
Times(a, b) ==
    IF a.k = "NaN" \/ b.k = "NaN" THEN DecNaN
    ELSE IF a.k = "Inf" \/ b.k = "Inf"
         THEN (IF IsZeroDec(a) \/ IsZeroDec(b) THEN DecNaN
               ELSE DecInf(Sgn(a.c) * Sgn(b.c)))
    ELSE Finalise(IF Sgn(a.c) * Sgn(b.c) < 0 THEN 0 - 1 ELSE 1,
                  Abs(a.c) * Abs(b.c), a.e + b.e)

\* Quotient of two finite non-zero Decimals: the dividend is scaled so that
\* the truncated quotient has more than Precision digits, then rounded.
DivFinite(a, b) ==
    LET m1 == Abs(a.c)
        m2 == Abs(b.c)
        k == Max(0, NumDigits(m2) + Precision + 1 - NumDigits(m1))
        q == (m1 * 10 ^ k) \div m2
    IN  Finalise(IF Sgn(a.c) * Sgn(b.c) < 0 THEN 0 - 1 ELSE 1, q, a.e - k - b.e)

\* Decimal.div(): a zero divisor gives an infinity (NaN for 0/0), no error.
Div(a, b) ==
    IF a.k = "NaN" \/ b.k = "NaN" THEN DecNaN
    ELSE IF a.k = "Inf" /\ b.k = "Inf" THEN DecNaN
    ELSE IF IsZeroDec(a) /\ IsZeroDec(b) THEN DecNaN
    ELSE IF IsZeroDec(a) \/ b.k = "Inf" THEN DecZero
    ELSE IF a.k = "Inf" THEN DecInf(a.c * (IF b.c < 0 THEN 0 - 1 ELSE 1))
    ELSE IF IsZeroDec(b) THEN DecInf(Sgn(a.c))
    ELSE DivFinite(a, b)

\* Remainder of two finite non-zero Decimals under truncating division
\* (Decimal.modulo mode ROUND_DOWN): the sign of the dividend.
ModFinite(a, b) ==
    LET m1 == Abs(a.c)
        m2 == Abs(b.c)
        s == IF a.c < 0 THEN 0 - 1 ELSE 1
    IN  IF a.e >= b.e
        THEN Finalise(s, (m1 * Pow10Mod(a.e - b.e, m2)) % m2, b.e)
        ELSE IF b.e - a.e >= NumDigits(m1)
             THEN Finalise(s, m1, a.e)
             ELSE Finalise(s, m1 % (m2 * 10 ^ (b.e - a.e)), a.e)

\* Decimal.modulo(): NaN for an infinite or NaN dividend and for a NaN or zero
\* divisor; the dividend itself for an infinite divisor or a zero dividend.
Modulo(a, b) ==
    IF a.k # "fin" \/ b.k = "NaN" \/ IsZeroDec(b) THEN DecNaN
    ELSE IF b.k = "Inf" \/ IsZeroDec(a)
         THEN Finalise(IF a.c < 0 THEN 0 - 1 ELSE 1, Abs(a.c), a.e)
    ELSE ModFinite(a, b)

\* intPow(): x^n for a natural n by repeated rounded multiplication.
RECURSIVE IntPow(_, _)
IntPow(x, n) == IF n = 0 THEN DecOne ELSE Times(IntPow(x, n - 1), x)

\* Math.pow(+x, +y), which Decimal.pow() returns when an operand is NaN, an
\* infinity or zero.  y is an integer or an infinity wherever parity matters.
MathPow(x, y) ==
    IF IsZeroDec(y) THEN DecOne
    ELSE IF x.k = "NaN" \/ y.k = "NaN" THEN DecNaN
    ELSE IF y.k = "Inf"
         THEN (IF x.k = "Inf" THEN (IF y.c > 0 THEN DecInf(1) ELSE DecZero)
               ELSE LET m == Cmp(IF x.c < 0 THEN Negated(x) ELSE x, DecOne)
                    IN  IF m = 0 THEN DecNaN
                        ELSE IF (m > 0) = (y.c > 0) THEN DecInf(1)
                        ELSE DecZero)
    ELSE IF x.k = "Inf"
         THEN (IF y.c < 0 THEN DecZero
               ELSE IF x.c < 0 /\ IsInt(y) /\ y.e = 0 /\ y.c % 2 = 1
                    THEN DecInf(0 - 1)
               ELSE DecInf(1))
    ELSE \* x is zero, y finite and non-zero
         IF y.c > 0 THEN DecZero ELSE DecInf(1)

\* Whether Pow below computes x ** y: every operand pair except a finite
\* non-integral exponent (decimal.js takes exp(y ln x) there) or an integral
\* exponent beyond MaxExponent, on a finite non-zero base other than 1.
PowModelled(x, y) ==
    \/ x.k # "fin" \/ y.k # "fin" \/ x.c = 0 \/ y.c = 0
    \/ x = DecOne
    \/ IsInt(y) /\ LeadPos(y) <= 1 /\ Abs(y.c) <= MaxExponent

\* Decimal.pow()
Pow(x, y) ==
    IF x.k # "fin" \/ y.k # "fin" \/ x.c = 0 \/ y.c = 0 THEN MathPow(x, y)
    ELSE IF x = DecOne THEN x
    ELSE IF y = DecOne THEN Finalise(IF x.c < 0 THEN 0 - 1 ELSE 1, Abs(x.c), x.e)
    ELSE IF y.c < 0 THEN Div(DecOne, IntPow(x, Abs(y.c) * 10 ^ y.e))
    ELSE IntPow(x, y.c * 10 ^ y.e)

(***************************************************************************)
(* Outcomes of a call: a returned Value, or a thrown error.  An error has  *)
(* its class ("EvalError", "NonConstantExpressionError", or "Error" for a  *)
(* plain JavaScript Error) and the optional field expr: has tells whether  *)
(* expr is set, expr is the path of the node from the root.                *)
(***************************************************************************)
Return(v) == [ok |-> TRUE, val |-> v]

\* new EvalError(msg): expr undefined
EvalError == [ok |-> FALSE, cls |-> "EvalError", has |-> FALSE, expr |-> <<>>]

\* new EvalError(msg, expr)
EvalErrorAt(p) == [ok |-> FALSE, cls |-> "EvalError", has |-> TRUE, expr |-> p]

\* new NonConstantExpressionError(expr): an EvalError subtype carrying expr
NonConstantExpressionError(p) ==
    [ok |-> FALSE, cls |-> "NonConstantExpressionError", has |-> TRUE, expr |-> p]

\* new Error(msg): not an EvalError, no expr field
PlainError == [ok |-> FALSE, cls |-> "Error", has |-> FALSE, expr |-> <<>>]

\* e instanceof EvalError
IsEvalError(o) == ~o.ok /\ o.cls \in {"EvalError", "NonConstantExpressionError"}

(***************************************************************************)
(* promoteToDec / demoteFromDec                                            *)
(***************************************************************************)
IsNumber(v) == v.t \in {"Integer", "Decimal"}

\* promoteToDec: a bigint becomes new Decimal(v.toString()); a boolean or a
\* string throws new Error(...).
promoteToDec(v) ==
    IF ~IsNumber(v) THEN PlainError
    ELSE IF v.t = "Decimal" THEN Return(v)
    ELSE Return(DecimalOf(IF v.n < 0 THEN 0 - 1 ELSE 1, Abs(v.n), 0))

\* demoteFromDec: BigInt(d.toFixed()) when d.isInt(), else d itself.
\* demoteFromDec without the isInt branch
demoteNever(d) == d

demoteFromDec(d) == IF IsInt(d) THEN Integer(d.c * 10 ^ d.e) ELSE d

(***************************************************************************)
(* Tables imported from ./utils.                                           *)
(***************************************************************************)
BINARY_OPERATOR_GROUPS ==
    [Logical |-> {"&&", "||"},
     Equality |-> {"==", "!="},
     Comparison |-> {"<", "<=", ">", ">="},
     Arithmetic |-> {"+", "-", "*", "/", "%", "**"},
     Bitwise |-> {"<<", ">>", "|", "&", "^"}]

\* The units whose multiplier the model's integers hold.
SUBDENOMINATION_MULTIPLIERS ==
    [u \in {"wei", "seconds", "minutes"} |->
        IF u = "minutes" THEN DecimalOf(1, 60, 0) ELSE DecOne]

\* JavaScript's undefined, for an absent subdenomination.
Undefined == "undefined"

(***************************************************************************)
(* evalLiteralImpl.  A literal's text (value, hexValue) and a String Value  *)
(* are sequences of characters.                                            *)
(***************************************************************************)
DigitValue ==
    [ch \in {"0", "1", "2", "3", "4", "5", "6", "7", "8", "9"} |->
        CASE ch = "0" -> 0 [] ch = "1" -> 1 [] ch = "2" -> 2 [] ch = "3" -> 3
          [] ch = "4" -> 4 [] ch = "5" -> 5 [] ch = "6" -> 6 [] ch = "7" -> 7
          [] ch = "8" -> 8 [] ch = "9" -> 9]

\* value.replaceAll("_", ""), on a token given as its sequence of characters
ReplaceAllUnderscores(value) == SelectSeq(value, LAMBDA ch : ch # "_")

\* The natural number a sequence of digit characters spells.
RECURSIVE DigitsValue(_)
DigitsValue(ds) ==
    IF ds = <<>> THEN 0
    ELSE 10 * DigitsValue(SubSeq(ds, 1, Len(ds) - 1)) + DigitValue[ds[Len(ds)]]

\* new Decimal(string) for a token of digits with at most one ".": the
\* digits give the coefficient, the digits after the point the exponent.
ParseDecimal(str) ==
    LET dots == {i \in 1..Len(str) : str[i] = "."}
        frac == IF dots = {} THEN 0 ELSE Len(str) - (CHOOSE i \in dots : TRUE)
        digits == SelectSeq(str, LAMBDA ch : ch # ".")
    IN  DecimalOf(1, DigitsValue(digits), 0 - frac)

evalLiteralImpl(kind, value, subdenomination) ==
    IF kind = "bool" THEN Return(Boolean(value = <<"t", "r", "u", "e">>))
    ELSE IF kind \in {"string", "unicodeString", "hexString"}
         THEN Return(String(value))
    ELSE IF kind = "number"
         THEN LET dec == ParseDecimal(ReplaceAllUnderscores(value))
                  val == IF IsInt(dec) THEN Integer(dec.c * 10 ^ dec.e) ELSE dec
              IN  IF subdenomination # Undefined
                  THEN IF subdenomination \notin DOMAIN SUBDENOMINATION_MULTIPLIERS
                       THEN EvalError
                       ELSE LET multiplier ==
                                    SUBDENOMINATION_MULTIPLIERS[subdenomination]
                            IN  IF val.t = "Decimal"
                                THEN Return(demoteFromDec(Times(val, multiplier)))
                                ELSE Return(Integer(val.n
                                         * (multiplier.c * 10 ^ multiplier.e)))
                  ELSE Return(val)
    ELSE EvalError

(***************************************************************************)
(* evalUnaryImpl                                                           *)
(***************************************************************************)
evalUnaryImpl(operator, value) ==
    IF operator = "!"
    THEN (IF value.t = "Boolean" THEN Return(Boolean(~value.b)) ELSE EvalError)
    ELSE IF operator = "~"
    THEN (IF value.t = "Integer" THEN Return(Integer(0 - value.n - 1))
          ELSE EvalError)
    ELSE IF operator = "+"
    THEN (IF IsNumber(value) THEN Return(value) ELSE EvalError)
    ELSE IF operator = "-"
    THEN (IF value.t = "Decimal" THEN Return(Negated(value))
          ELSE IF value.t = "Integer" THEN Return(Integer(0 - value.n))
          ELSE EvalError)
    ELSE EvalError

(***************************************************************************)
(* bigint operators of evalBinaryImpl                                      *)
(***************************************************************************)
\* One bit of a bitwise operator.
BitOf(operator, x, y) ==
    CASE operator = "|" -> IF x = 1 \/ y = 1 THEN 1 ELSE 0
      [] operator = "&" -> IF x = 1 /\ y = 1 THEN 1 ELSE 0
      [] operator = "^" -> IF x # y THEN 1 ELSE 0

\* |, & and ^ on two's-complement integers of unbounded width: 0 and -1 are
\* the all-zeros and all-ones words.
RECURSIVE Bitwise(_, _, _)
Bitwise(operator, a, b) ==
    IF a \in {0, 0 - 1} /\ b \in {0, 0 - 1}
    THEN 0 - BitOf(operator, 0 - a, 0 - b)
    ELSE 2 * Bitwise(operator, a \div 2, b \div 2) + BitOf(operator, a % 2, b % 2)

\* a >> k for k >= 0: floor(a / 2^k); every shift of 30 or more gives the
\* sign word for the integers of the model.
ShiftRight(a, k) == a \div (2 ^ Min(k, 30))

\* a << k for k >= 0
ShiftLeft(a, k) == a * 2 ^ k

\* bigint << and >>: a negative amount shifts the other way, no error.
LeftShift(left, right) ==
    IF right >= 0 THEN ShiftLeft(left, right) ELSE ShiftRight(left, 0 - right)

SignedRightShift(left, right) ==
    IF right >= 0 THEN ShiftRight(left, right) ELSE ShiftLeft(left, 0 - right)

(***************************************************************************)
(* evalBinaryImpl                                                          *)
(***************************************************************************)
\* left === right for two Values that are not both Decimal objects
\* == in place of ===: a boolean compares as 0 or 1 with a bigint
LooseEquals(left, right) ==
    IF left.t = "Integer" /\ right.t = "Boolean"
    THEN left.n = (IF right.b THEN 1 ELSE 0)
    ELSE IF left.t = "Boolean" /\ right.t = "Integer"
    THEN right.n = (IF left.b THEN 1 ELSE 0)
    ELSE /\ left.t = right.t
         /\ CASE left.t = "Integer" -> left.n = right.n
              [] left.t = "Boolean" -> left.b = right.b
              [] left.t = "String" -> left.s = right.s
              [] left.t = "Decimal" -> FALSE

StrictEquals(left, right) ==
    /\ left.t = right.t
    /\ CASE left.t = "Integer" -> left.n = right.n
         [] left.t = "Boolean" -> left.b = right.b
         [] left.t = "String" -> left.s = right.s
         [] left.t = "Decimal" -> FALSE

\* The Decimal res of the arithmetic group, before demotion.
ArithmeticRes(operator, leftDec, rightDec) ==
    CASE operator = "+" -> Plus(leftDec, rightDec)
      [] operator = "-" -> Minus(leftDec, rightDec)
      [] operator = "*" -> Times(leftDec, rightDec)
      [] operator = "/" -> Div(leftDec, rightDec)
      [] operator = "%" -> Modulo(leftDec, rightDec)
      [] operator = "**" -> Pow(leftDec, rightDec)

evalBinaryImpl(operator, left, right) ==
    IF operator \in BINARY_OPERATOR_GROUPS.Logical
    THEN IF ~(left.t = "Boolean" /\ right.t = "Boolean") THEN EvalError
         ELSE IF operator = "&&" THEN Return(Boolean(left.b /\ right.b))
         ELSE IF operator = "||" THEN Return(Boolean(left.b \/ right.b))
         ELSE EvalError
    ELSE IF operator \in BINARY_OPERATOR_GROUPS.Equality
    THEN IF left.t = "String" \/ right.t = "String" THEN EvalError
         ELSE LET isEqual ==
                      IF left.t = "Decimal" /\ right.t = "Decimal"
                      THEN Cmp(left, right) = 0
                      ELSE StrictEquals(left, right)
              IN  IF operator = "==" THEN Return(Boolean(isEqual))
                  ELSE IF operator = "!=" THEN Return(Boolean(~isEqual))
                  ELSE EvalError
    ELSE IF operator \in BINARY_OPERATOR_GROUPS.Comparison
    THEN IF ~promoteToDec(left).ok THEN promoteToDec(left)
         ELSE IF ~promoteToDec(right).ok THEN promoteToDec(right)
         ELSE LET leftDec == promoteToDec(left).val
                  rightDec == promoteToDec(right).val
                  cmp == Cmp(leftDec, rightDec)
              IN  IF operator = "<" THEN Return(Boolean(cmp = 0 - 1))
                  ELSE IF operator = "<=" THEN Return(Boolean(cmp \in {0 - 1, 0}))
                  ELSE IF operator = ">" THEN Return(Boolean(cmp = 1))
                  ELSE IF operator = ">=" THEN Return(Boolean(cmp \in {0, 1}))
                  ELSE EvalError
    ELSE IF operator \in BINARY_OPERATOR_GROUPS.Arithmetic
    THEN IF ~promoteToDec(left).ok THEN promoteToDec(left)
         ELSE IF ~promoteToDec(right).ok THEN promoteToDec(right)
         ELSE LET leftDec == promoteToDec(left).val
                  rightDec == promoteToDec(right).val
              IN  IF operator \in {"+", "-", "*", "/", "%", "**"}
                  THEN Return(demoteFromDec(
                                  ArithmeticRes(operator, leftDec, rightDec)))
                  ELSE EvalError
    ELSE IF operator \in BINARY_OPERATOR_GROUPS.Bitwise
    THEN IF ~(left.t = "Integer" /\ right.t = "Integer") THEN EvalError
         ELSE IF operator = "<<" THEN Return(Integer(LeftShift(left.n, right.n)))
         ELSE IF operator = ">>"
              THEN Return(Integer(SignedRightShift(left.n, right.n)))
         ELSE IF operator \in {"|", "&", "^"}
              THEN Return(Integer(Bitwise(operator, left.n, right.n)))
         ELSE EvalError
    ELSE EvalError

(***************************************************************************)
(* Expressions (../ast): records named by their node type, with the fields *)
(* the evaluator reads.  A node is addressed by its path from the root:    *)
(* the sequence of child positions leading to it.                          *)
(***************************************************************************)
\* JavaScript's null/undefined where a node is expected.
Absent == [type |-> "undefined"]

Literal(kind, value, subdenomination) ==
    [type |-> "Literal", kind |-> kind, value |-> value, hexValue |-> value,
     subdenomination |-> subdenomination]

UnaryOperation(operator, sub) ==
    [type |-> "UnaryOperation", operator |-> operator, vSubExpression |-> sub]

BinaryOperation(operator, left, right) ==
    [type |-> "BinaryOperation", operator |-> operator,
     vLeftExpression |-> left, vRightExpression |-> right]

TupleExpression(isInlineArray, components) ==
    [type |-> "TupleExpression", isInlineArray |-> isInlineArray,
     vOriginalComponents |-> components]

Conditional(c, t, f) ==
    [type |-> "Conditional", vCondition |-> c, vTrueExpression |-> t,
     vFalseExpression |-> f]

VariableDeclaration(constant, vValue) ==
    [type |-> "VariableDeclaration", constant |-> constant, vValue |-> vValue]

FunctionDefinition == [type |-> "FunctionDefinition"]

Identifier(decl) == [type |-> "Identifier", vReferencedDeclaration |-> decl]

FunctionCall(kind, args) ==
    [type |-> "FunctionCall", kind |-> kind, vArguments |-> args]

\* An expression of a shape the evaluator does not know.
MemberAccess == [type |-> "MemberAccess"]

\* The expressions a node refers to, in the order of their positions.
Children(node) ==
    CASE node.type = "UnaryOperation" -> <<node.vSubExpression>>
      [] node.type = "BinaryOperation" ->
            <<node.vLeftExpression, node.vRightExpression>>
      [] node.type = "TupleExpression" -> node.vOriginalComponents
      [] node.type = "Conditional" ->
            <<node.vCondition, node.vTrueExpression, node.vFalseExpression>>
      [] node.type = "Identifier" ->
            IF node.vReferencedDeclaration.type = "VariableDeclaration"
            THEN <<node.vReferencedDeclaration.vValue>>
            ELSE <<>>
      [] node.type = "FunctionCall" -> node.vArguments
      [] OTHER -> <<>>

RECURSIVE At(_, _)
At(tree, path) ==
    IF path = <<>> THEN tree ELSE At(Children(tree)[Head(path)], Tail(path))

(***************************************************************************)
(* isConstant, lines 61-122: a chain of ifs, each an instanceof test, the  *)
(* node's own flags, and recursive calls joined by &&.                     *)
(***************************************************************************)
\* The conjuncts of the node's if that are not recursive calls.
ShapeAdmits(node) ==
    CASE node.type = "Literal" -> TRUE
      [] node.type = "UnaryOperation" -> TRUE
      [] node.type = "BinaryOperation" -> TRUE
      [] node.type = "TupleExpression" ->
            /\ ~node.isInlineArray
            /\ Len(node.vOriginalComponents) = 1
            /\ node.vOriginalComponents[1] # Absent
      [] node.type = "Conditional" -> TRUE
      [] node.type = "Identifier" ->
            /\ node.vReferencedDeclaration.type = "VariableDeclaration"
            /\ node.vReferencedDeclaration.constant
            /\ node.vReferencedDeclaration.vValue # Absent
      [] node.type = "FunctionCall" ->
            /\ node.kind = "typeConversion"
            /\ Len(node.vArguments) >= 1
      [] OTHER -> FALSE

\* The BinaryOperation if without its isConstant(expr.vRightExpression)
ConstantOperandsLeftOnly(node) ==
    CASE node.type = "Literal" -> <<>>
      [] node.type = "UnaryOperation" -> <<1>>
      [] node.type = "BinaryOperation" -> <<1>>
      [] node.type = "TupleExpression" -> <<1>>
      [] node.type = "Conditional" -> <<1, 2, 3>>
      [] node.type = "Identifier" -> <<1>>
      [] node.type = "FunctionCall" -> <<1>>
      [] OTHER -> <<>>

\* The positions of the children the node's if passes to isConstant, in the
\* order of the && chain.
ConstantOperands(node) ==
    CASE node.type = "Literal" -> <<>>
      [] node.type = "UnaryOperation" -> <<1>>
      [] node.type = "BinaryOperation" -> <<1, 2>>
      [] node.type = "TupleExpression" -> <<1>>
      [] node.type = "Conditional" -> <<1, 2, 3>>
      [] node.type = "Identifier" -> <<1>>
      [] node.type = "FunctionCall" -> <<1>>
      [] OTHER -> <<>>

(***************************************************************************)
(* evalLiteral / evalUnary / evalBinary: the Impl call in a try, the catch *)
(* that attaches the node.                                                 *)
(***************************************************************************)
\* catch of evalLiteral: every EvalError gets e.expr = node
CatchLiteral(o, p) == IF IsEvalError(o) THEN [o EXCEPT !.has = TRUE, !.expr = p] ELSE o

\* catch of evalUnary and evalBinary: e.expr = node only when undefined
CatchAttach(o, p) ==
    IF IsEvalError(o) /\ ~o.has THEN [o EXCEPT !.has = TRUE, !.expr = p] ELSE o

evalLiteral(node, p) ==
    CatchLiteral(evalLiteralImpl(node.kind,
                                 IF node.kind = "hexString" THEN node.hexValue
                                 ELSE node.value,
                                 node.subdenomination), p)

\* evalUnary and evalBinary once their operands have returned values
evalUnary(node, p, value) == CatchAttach(evalUnaryImpl(node.operator, value), p)

evalBinary(node, p, left, right) ==
    CatchAttach(evalBinaryImpl(node.operator, left, right), p)

\* JavaScript truthiness of a Value, for the ?: of the Conditional case: a
\* Decimal is an object and always truthy.
Truthy(v) ==
    CASE v.t = "Boolean" -> v.b
      [] v.t = "Integer" -> v.n # 0
      [] v.t = "String" -> v.s # <<>>
      [] v.t = "Decimal" -> TRUE

(***************************************************************************)
(* The expressions handed to the evaluator.  The AST collaborator is       *)
(* modelled by a parser of prefix notation: a sequence of at most MaxNodes *)
(* tokens, one per node, each naming a node variant; the tokens after an   *)
(* operator token spell its sub-expressions.                               *)
(***************************************************************************)
Arity ==
    [tok \in {"true", "false", "1", "1 unknown", "fn", "uninit", "(null)", "x.y",
              "!", "(.)", "[.]", "const", "var", "cast", "call",
              "+", "&&", "(.,.)", "?:"} |->
        IF tok \in {"!", "(.)", "[.]", "const", "var", "cast", "call"} THEN 1
        ELSE IF tok \in {"+", "&&", "(.,.)"} THEN 2
        ELSE IF tok = "?:" THEN 3
        ELSE 0]

Tokens == DOMAIN Arity

\* The node a token stands for, given its sub-expressions.
Node(tok, subs) ==
    CASE tok = "true" -> Literal("bool", <<"t", "r", "u", "e">>, Undefined)
      [] tok = "false" -> Literal("bool", <<"f", "a", "l", "s", "e">>, Undefined)
      [] tok = "1" -> Literal("number", <<"1">>, Undefined)
      [] tok = "1 unknown" -> Literal("number", <<"1">>, "unknown")
      [] tok = "fn" -> Identifier(FunctionDefinition)
      [] tok = "uninit" -> Identifier(VariableDeclaration(TRUE, Absent))
      [] tok = "(null)" -> TupleExpression(FALSE, <<Absent>>)
      [] tok = "x.y" -> MemberAccess
      [] tok = "!" -> UnaryOperation("!", subs[1])
      [] tok = "(.)" -> TupleExpression(FALSE, subs)
      [] tok = "[.]" -> TupleExpression(TRUE, subs)
      [] tok = "const" -> Identifier(VariableDeclaration(TRUE, subs[1]))
      [] tok = "var" -> Identifier(VariableDeclaration(FALSE, subs[1]))
      [] tok = "cast" -> FunctionCall("typeConversion", subs)
      [] tok = "call" -> FunctionCall("functionCall", subs)
      [] tok = "+" -> BinaryOperation("+", subs[1], subs[2])
      [] tok = "&&" -> BinaryOperation("&&", subs[1], subs[2])
      [] tok = "(.,.)" -> TupleExpression(FALSE, subs)
      [] tok = "?:" -> Conditional(subs[1], subs[2], subs[3])

\* The number of expressions still to come after the first i tokens of code,
\* -1 once the tokens could not be parsed.
RECURSIVE Pending(_, _)
Pending(code, i) ==
    IF i = 0 THEN 1
    ELSE LET before == Pending(code, i - 1)
         IN  IF before <= 0 THEN 0 - 1 ELSE before - 1 + Arity[code[i]]

WellFormed(code) == Pending(code, Len(code)) = 0

\* Parse k expressions from position i of code: <<the expressions, the
\* position after them>>.
RECURSIVE ParseSeq(_, _, _)
ParseSeq(code, i, k) ==
    IF k = 0 THEN <<<<>>, i>>
    ELSE LET subs == ParseSeq(code, i + 1, Arity[code[i]])
             rest == ParseSeq(code, subs[2], k - 1)
         IN  <<<<Node(code[i], subs[1])>> \o rest[1], rest[2]>>

Parse(code) == ParseSeq(code, 1, 1)[1][1]

(***************************************************************************)
(* The call stack.                                                         *)
(***************************************************************************)
VARIABLES
    expr,        \* the expression tree evalConstantExpr is called on
    stack,       \* the frames of the calls in progress, the innermost last
    ret,         \* what the call that just ended handed to its caller
    classified,  \* history: node |-> what isConstant told evalConstantExpr
    called,      \* history: the nodes evalConstantExpr was called on
    outcome,     \* history: node |-> how evalConstantExpr left it
    origin,      \* history: the node whose frame first raised the error
    call,        \* operator level: the last operator evaluation
    ops          \* operator level: the number of evaluations so far

vars == <<expr, stack, ret, classified, called, outcome, origin, call, ops>>

machine == <<expr, stack, ret, classified, called, outcome, origin>>

NoRet == [kind |-> "none"]

BoolRet(b) == [kind |-> "bool", b |-> b]

OutRet(o) == [kind |-> "out", out |-> o]

Frame(fn, node, pc, vals) == [fn |-> fn, node |-> node, pc |-> pc, vals |-> vals]

Top == stack[Len(stack)]

Popped == SubSeq(stack, 1, Len(stack) - 1)

Put(f, k, v) == [x \in DOMAIN f \cup {k} |-> IF x = k THEN v ELSE f[x]]

NoCall == [fn |-> "none"]

Init ==
    /\ \E n \in 1..MaxNodes :
          \E code \in [1..n -> Tokens] : WellFormed(code) /\ expr = Parse(code)
    /\ stack = <<>>
    /\ ret = NoRet
    /\ classified = <<>>
    /\ called = {}
    /\ outcome = <<>>
    /\ origin = {}
    /\ call = NoCall
    /\ ops = 0

\* The caller's call evalConstantExpr(expr).
Enter ==
    /\ stack = <<>> /\ ret = NoRet /\ called = {} /\ call = NoCall
    /\ stack' = <<Frame("evalConstantExpr", <<>>, "entry", <<>>)>>
    /\ called' = {<<>>}
    /\ UNCHANGED <<expr, ret, classified, outcome, origin, call, ops>>

InEval(pc) ==
    /\ stack # <<>>
    /\ Top.fn = "evalConstantExpr"
    /\ Top.pc = pc

InIsConstant == stack # <<>> /\ Top.fn = "isConstant"

\* line 379: evalConstantExpr calls isConstant(node) first
CallIsConstant ==
    /\ InEval("entry") /\ ret = NoRet
    /\ stack' = Append([stack EXCEPT ![Len(stack)].pc = "guard"],
                       Frame("isConstant", Top.node, 1, <<>>))
    /\ UNCHANGED <<expr, ret, classified, called, outcome, origin, call, ops>>

\* isConstant: the node's if fails on the node's own flags, or no if matches
\* its shape: return false (line 121)
IsConstantReject ==
    /\ InIsConstant /\ ret = NoRet
    /\ ~ShapeAdmits(At(expr, Top.node))
    /\ stack' = Popped
    /\ ret' = BoolRet(FALSE)
    /\ UNCHANGED <<expr, classified, called, outcome, origin, call, ops>>

\* isConstant: every conjunct of the node's if held: return true
IsConstantAccept ==
    /\ InIsConstant /\ ret = NoRet
    /\ ShapeAdmits(At(expr, Top.node))
    /\ Top.pc > Len(ConstantOperands(At(expr, Top.node)))
    /\ stack' = Popped
    /\ ret' = BoolRet(TRUE)
    /\ UNCHANGED <<expr, classified, called, outcome, origin, call, ops>>

\* isConstant: the next recursive call of the && chain
IsConstantRecurse ==
    /\ InIsConstant /\ ret = NoRet
    /\ ShapeAdmits(At(expr, Top.node))
    /\ Top.pc <= Len(ConstantOperands(At(expr, Top.node)))
    /\ stack' = Append(stack,
                       Frame("isConstant",
                             Append(Top.node,
                                    ConstantOperands(At(expr, Top.node))[Top.pc]),
                             1, <<>>))
    /\ UNCHANGED <<expr, ret, classified, called, outcome, origin, call, ops>>

\* An && chain that calls isConstant on the same operand again
IsConstantNextAgain ==
    /\ InIsConstant /\ ret = BoolRet(TRUE)
    /\ ret' = NoRet
    /\ UNCHANGED <<expr, stack, classified, called, outcome, origin, call, ops>>

\* isConstant: a recursive call returned true, the && chain goes on
IsConstantNext ==
    /\ InIsConstant /\ ret = BoolRet(TRUE)
    /\ stack' = [stack EXCEPT ![Len(stack)].pc = @ + 1]
    /\ ret' = NoRet
    /\ UNCHANGED <<expr, classified, called, outcome, origin, call, ops>>

\* isConstant: a recursive call returned false, the && short-circuits, the
\* remaining ifs do not match, return false (line 121)
IsConstantShortCircuit ==
    /\ InIsConstant /\ ret = BoolRet(FALSE)
    /\ stack' = Popped
    /\ UNCHANGED <<expr, ret, classified, called, outcome, origin, call, ops>>

\* What leaves an evalConstantExpr frame: recorded, and handed to the caller.
Leave(o) ==
    /\ stack' = Popped
    /\ ret' = OutRet(o)
    /\ outcome' = Put(outcome, Top.node, o)
    /\ origin' = IF ~o.ok /\ origin = {} THEN {Top.node} ELSE origin

\* lines 379-381: throw new NonConstantExpressionError(node)
ThrowNonConstant ==
    /\ InEval("guard") /\ ret = BoolRet(FALSE)
    /\ classified' = Put(classified, Top.node, FALSE)
    /\ Leave(NonConstantExpressionError(Top.node))
    /\ UNCHANGED <<expr, called, call, ops>>

\* The dispatch without the guard of line 379
DispatchUnguarded ==
    /\ InEval("guard") /\ ret.kind = "bool"
    /\ classified' = Put(classified, Top.node, ret.b)
    /\ stack' = [stack EXCEPT ![Len(stack)].pc = "body"]
    /\ ret' = NoRet
    /\ UNCHANGED <<expr, called, outcome, origin, call, ops>>

\* line 379: isConstant(node) held, go on to the dispatch
Dispatch ==
    /\ InEval("guard") /\ ret = BoolRet(TRUE)
    /\ classified' = Put(classified, Top.node, TRUE)
    /\ stack' = [stack EXCEPT ![Len(stack)].pc = "body"]
    /\ ret' = NoRet
    /\ UNCHANGED <<expr, called, outcome, origin, call, ops>>

\* Whether the dispatch of lines 383-419 evaluates a sub-expression of node.
HasSub(node) ==
    \/ node.type \in {"UnaryOperation", "BinaryOperation", "TupleExpression",
                      "Conditional", "FunctionCall"}
    \/ /\ node.type = "Identifier"
       /\ node.vReferencedDeclaration.type = "VariableDeclaration"

\* The Conditional case with the branches of its ?: exchanged
NextSubExchanged(node, vals) ==
    CASE node.type = "BinaryOperation" -> Len(vals) + 1
      [] node.type = "Conditional" ->
            IF vals = <<>> THEN 1 ELSE IF Truthy(vals[1]) THEN 3 ELSE 2
      [] OTHER -> 1

\* The position of the sub-expression evaluated next, given the values of
\* those evaluated so far: operands left to right; the condition, then the
\* branch it selects.
NextSub(node, vals) ==
    CASE node.type = "BinaryOperation" -> Len(vals) + 1
      [] node.type = "Conditional" ->
            IF vals = <<>> THEN 1 ELSE IF Truthy(vals[1]) THEN 2 ELSE 3
      [] OTHER -> 1

\* Whether node needs one more value after vals before it can finish.
AwaitsMore(node, vals) ==
    \/ node.type = "BinaryOperation" /\ Len(vals) = 0
    \/ node.type = "Conditional" /\ Len(vals) = 0

\* lines 383-385 (evalLiteral) and line 424 (no case matched)
NoSubOutcome(node, p) ==
    IF node.type = "Literal" THEN evalLiteral(node, p) ELSE EvalErrorAt(p)

EvalNoSub ==
    /\ InEval("body") /\ ret = NoRet
    /\ ~HasSub(At(expr, Top.node))
    /\ Leave(NoSubOutcome(At(expr, Top.node), Top.node))
    /\ UNCHANGED <<expr, classified, called, call, ops>>

\* lines 345, 359, 360, 396, 400-402, 409, 418: the recursive call
CallSub ==
    /\ InEval("body") /\ ret = NoRet
    /\ HasSub(At(expr, Top.node))
    /\ LET sub == Append(Top.node, NextSub(At(expr, Top.node), Top.vals))
       IN  /\ stack' = Append(stack, Frame("evalConstantExpr", sub, "entry", <<>>))
           /\ called' = called \cup {sub}
    /\ UNCHANGED <<expr, ret, classified, outcome, origin, call, ops>>

\* A recursive call returned the left operand or the condition: keep it.
KeepOperand ==
    /\ InEval("body") /\ ret.kind = "out" /\ ret.out.ok
    /\ AwaitsMore(At(expr, Top.node), Top.vals)
    /\ stack' = [stack EXCEPT ![Len(stack)].vals = Append(@, ret.out.val)]
    /\ ret' = NoRet
    /\ UNCHANGED <<expr, classified, called, outcome, origin, call, ops>>

\* What a node returns or throws once its last sub-expression returned v.
Finish(node, p, vals, v) ==
    CASE node.type = "UnaryOperation" -> evalUnary(node, p, v)
      [] node.type = "BinaryOperation" -> evalBinary(node, p, vals[1], v)
      [] OTHER -> Return(v)

\* The last recursive call returned: apply the operator, or return the value
\* as it is (tuple, selected branch, initializer, conversion argument).
Complete ==
    /\ InEval("body") /\ ret.kind = "out" /\ ret.out.ok
    /\ ~AwaitsMore(At(expr, Top.node), Top.vals)
    /\ Leave(Finish(At(expr, Top.node), Top.node, Top.vals, ret.out.val))
    /\ UNCHANGED <<expr, classified, called, call, ops>>

\* What leaves a frame that a recursive call's exception e passes through:
\* the catch of evalUnary and evalBinary, no handler elsewhere.
Rethrow(node, p, e) ==
    IF node.type \in {"UnaryOperation", "BinaryOperation"} THEN CatchAttach(e, p)
    ELSE e

Unwind ==
    /\ InEval("body") /\ ret.kind = "out" /\ ~ret.out.ok
    /\ Leave(Rethrow(At(expr, Top.node), Top.node, ret.out))
    /\ UNCHANGED <<expr, classified, called, call, ops>>

Next ==
    \/ Enter
    \/ CallIsConstant
    \/ IsConstantReject
    \/ IsConstantAccept
    \/ IsConstantRecurse
    \/ IsConstantNext
    \/ IsConstantShortCircuit
    \/ ThrowNonConstant
    \/ Dispatch
    \/ EvalNoSub
    \/ CallSub
    \/ KeepOperand
    \/ Complete
    \/ Unwind

Spec == Init /\ [][Next]_vars

\* The outermost call has ended.
Finished == stack = <<>> /\ ret.kind = "out"

(***************************************************************************)
(* The operator level: the exported evalLiteralImpl, evalUnaryImpl and     *)
(* evalBinaryImpl, called on literal tokens and on Values.  An operand is  *)
(* the Value of a literal, of a negated numeric literal, or the Value the  *)
(* previous call returned.                                                 *)
(***************************************************************************)
LiteralInputs ==
    {<<"bool", <<"t", "r", "u", "e">>, Undefined>>,
     <<"bool", <<"f", "a", "l", "s", "e">>, Undefined>>,
     <<"string", <<"a">>, Undefined>>,
     <<"unicodeString", <<"a">>, Undefined>>,
     <<"hexString", <<"a">>, Undefined>>,
     <<"number", <<"0">>, Undefined>>,
     <<"number", <<"1">>, Undefined>>,
     <<"number", <<"3">>, Undefined>>,
     <<"number", <<"6", "_", "0">>, Undefined>>,
     <<"number", <<"0", ".", "5">>, Undefined>>,
     <<"number", <<"3", ".", "0">>, Undefined>>,
     <<"number", <<"1">>, "minutes">>,
     <<"number", <<"0", ".", "0", "5">>, "minutes">>,
     <<"number", <<"0", ".", "5">>, "wei">>,
     <<"number", <<"1">>, "unknown">>}

LiteralValues ==
    {o.val : o \in {x \in {evalLiteralImpl(l[1], l[2], l[3]) : l \in LiteralInputs} :
                        x.ok}}

\* The Values of literals and of negated numeric literals.
LiteralOperands ==
    LiteralValues
    \cup {evalUnaryImpl("-", v).val : v \in {x \in LiteralValues : IsNumber(x)}}

\* The operand of a unary call: a literal's Value for a first call, then the
\* Value the previous call returned.
UnaryOperands ==
    IF call = NoCall THEN LiteralOperands
    ELSE IF call.out.ok THEN {call.out.val}
    ELSE {}

\* The operands of a binary call: after a first call, one of them is the
\* Value the previous call returned.
BinaryOperands ==
    IF call = NoCall THEN LiteralOperands \X LiteralOperands
    ELSE IF call.out.ok
         THEN ({call.out.val} \X (LiteralOperands \cup {call.out.val}))
              \cup (LiteralOperands \X {call.out.val})
    ELSE {}

UnaryOperators == {"!", "~", "+", "-", "++"}

BinaryOperators ==
    BINARY_OPERATOR_GROUPS.Logical \cup BINARY_OPERATOR_GROUPS.Equality
    \cup BINARY_OPERATOR_GROUPS.Comparison \cup BINARY_OPERATOR_GROUPS.Arithmetic
    \cup BINARY_OPERATOR_GROUPS.Bitwise \cup {"=>"}

\* An outcome within the integers of the model.
InRange(o) == (o.ok /\ o.val.t = "Integer") => Abs(o.val.n) <= MaxInt

\* The calls of evalBinaryImpl the model computes: "**" as far as Pow is
\* modelled, shifts by at most MaxExponent, results within MaxInt.
BinaryModelled(operator, left, right) ==
    /\ (operator \in BINARY_OPERATOR_GROUPS.Arithmetic
        /\ IsNumber(left) /\ IsNumber(right)) =>
          LET leftDec == promoteToDec(left).val
              rightDec == promoteToDec(right).val
          IN  /\ operator = "**" => PowModelled(leftDec, rightDec)
              /\ LET res == ArithmeticRes(operator, leftDec, rightDec)
                 IN  IsInt(res) => LeadPos(res) <= Precision
    /\ (operator \in {"<<", ">>"} /\ left.t = "Integer" /\ right.t = "Integer")
          => Abs(right.n) <= MaxExponent
    /\ InRange(evalBinaryImpl(operator, left, right))

InitImpl ==
    /\ expr = MemberAccess
    /\ stack = <<>>
    /\ ret = NoRet
    /\ classified = <<>>
    /\ called = {}
    /\ outcome = <<>>
    /\ origin = {}
    /\ call = NoCall
    /\ ops = 0

EvalLiteralImplCall ==
    /\ ops < MaxOps /\ call = NoCall
    /\ \E l \in LiteralInputs :
          call' = [fn |-> "evalLiteralImpl", kind |-> l[1], value |-> l[2],
                   subdenomination |-> l[3],
                   out |-> evalLiteralImpl(l[1], l[2], l[3])]
    /\ ops' = ops + 1
    /\ UNCHANGED machine

EvalUnaryImplCall ==
    /\ ops < MaxOps
    /\ \E operator \in UnaryOperators, value \in UnaryOperands :
          /\ InRange(evalUnaryImpl(operator, value))
          /\ call' = [fn |-> "evalUnaryImpl", operator |-> operator,
                      value |-> value, out |-> evalUnaryImpl(operator, value)]
    /\ ops' = ops + 1
    /\ UNCHANGED machine

EvalBinaryImplCall ==
    /\ ops < MaxOps
    /\ \E operator \in BinaryOperators, lr \in BinaryOperands :
          /\ BinaryModelled(operator, lr[1], lr[2])
          /\ call' = [fn |-> "evalBinaryImpl", operator |-> operator,
                      left |-> lr[1], right |-> lr[2],
                      out |-> evalBinaryImpl(operator, lr[1], lr[2])]
    /\ ops' = ops + 1
    /\ UNCHANGED machine

NextImpl == EvalLiteralImplCall \/ EvalUnaryImplCall \/ EvalBinaryImplCall

SpecImpl == InitImpl /\ [][NextImpl]_vars

\* The termination claim is checked under the scheduling of a single thread
\* of control: a call that can take a step takes it.
FairSpec == Init /\ [][Next]_vars /\ WF_vars(Next)

(***************************************************************************)
(* Properties of the evaluator.                                            *)
(***************************************************************************)
\* The operands of the binary call are of different Value variants.
MixedOperands == call.fn = "evalBinaryImpl" /\ call.left.t # call.right.t

\* C1: whenever isConstant(node) was false at the guard of evalConstantExpr,
\* the call leaves with NonConstantExpressionError carrying that node: it
\* neither returns a Value nor fails with another error.
C1_NonConstantFails ==
    \A p \in DOMAIN outcome :
        (p \in DOMAIN classified /\ ~classified[p]) =>
            outcome[p] = NonConstantExpressionError(p)

\* C1 witness: a call on a non-constant BinaryOperation has ended with
\* NonConstantExpressionError.
C1_Witness ==
    /\ Finished
    /\ expr.type = "BinaryOperation"
    /\ <<>> \in DOMAIN classified /\ ~classified[<<>>]
    /\ ret.out = NonConstantExpressionError(<<>>)

\* C2: "/" or "%" with a numeric left operand and a right operand that is
\* zero fails with EvalError and returns no Value.
C2_ZeroDivisorFails ==
    (/\ call.fn = "evalBinaryImpl"
     /\ call.operator \in {"/", "%"}
     /\ IsNumber(call.left) /\ IsNumber(call.right)
     /\ IsZeroDec(promoteToDec(call.right).val))
        => IsEvalError(call.out)

\* C3: "<<" or ">>" with an Integer left operand and a negative Integer
\* shift amount fails with EvalError and returns no Value.
C3_NegativeShiftFails ==
    (/\ call.fn = "evalBinaryImpl"
     /\ call.operator \in {"<<", ">>"}
     /\ call.left.t = "Integer" /\ call.right.t = "Integer"
     /\ call.right.n < 0)
        => IsEvalError(call.out)

\* C4: a comparison or arithmetic operation with a Boolean or String operand
\* fails with an EvalError that has no expression attached.
C4_PromotionFailsWithEvalError ==
    (/\ call.fn = "evalBinaryImpl"
     /\ call.operator \in BINARY_OPERATOR_GROUPS.Comparison
                          \cup BINARY_OPERATOR_GROUPS.Arithmetic
     /\ ~(IsNumber(call.left) /\ IsNumber(call.right)))
        => (IsEvalError(call.out) /\ ~call.out.has)

C6_IntegralIsInteger ==
    (call # NoCall /\ call.out.ok /\ call.out.val.t = "Decimal")
        => ~IsInt(call.out.val)

\* C6 witness: 0.5 + 0.5 has returned Integer 1.
C6_Witness ==
    /\ call.fn = "evalBinaryImpl"
    /\ call.operator = "+"
    /\ call.left.t = "Decimal" /\ call.right.t = "Decimal"
    /\ call.out = Return(Integer(1))

\* C7 as stated: a logical, equality or bitwise operation on operands of
\* different Value variants is rejected with EvalError.
C7_MixedRejected ==
    (/\ MixedOperands
     /\ call.operator \in BINARY_OPERATOR_GROUPS.Logical
                          \cup BINARY_OPERATOR_GROUPS.Equality
                          \cup BINARY_OPERATOR_GROUPS.Bitwise)
        => IsEvalError(call.out)

\* C7 as amended: a logical or bitwise operation on operands of different
\* Value variants is rejected with EvalError; an equality operation on them
\* is rejected when either is a String, and otherwise returns, without
\* promoting either, false for "==" and true for "!=".
C7_MixedRejectedOrUnequal ==
    MixedOperands =>
        /\ call.operator \in BINARY_OPERATOR_GROUPS.Logical
                             \cup BINARY_OPERATOR_GROUPS.Bitwise
              => call.out = EvalError
        /\ call.operator \in BINARY_OPERATOR_GROUPS.Equality =>
              IF call.left.t = "String" \/ call.right.t = "String"
              THEN call.out = EvalError
              ELSE call.out = Return(Boolean(call.operator = "!="))

\* C7 witness: 1 == true has returned false.
C7_Witness ==
    /\ call.fn = "evalBinaryImpl"
    /\ call.operator = "=="
    /\ call.left = Integer(1) /\ call.right = Boolean(TRUE)
    /\ call.out = Return(Boolean(FALSE))

\* The structural definition of a constant expression.
RECURSIVE StructurallyConstant(_)
StructurallyConstant(node) ==
    CASE node.type = "Literal" -> TRUE
      [] node.type = "UnaryOperation" -> StructurallyConstant(node.vSubExpression)
      [] node.type = "BinaryOperation" ->
            /\ StructurallyConstant(node.vLeftExpression)
            /\ StructurallyConstant(node.vRightExpression)
      [] node.type = "TupleExpression" ->
            /\ ~node.isInlineArray
            /\ Len(node.vOriginalComponents) = 1
            /\ StructurallyConstant(node.vOriginalComponents[1])
      [] node.type = "Conditional" ->
            /\ StructurallyConstant(node.vCondition)
            /\ StructurallyConstant(node.vTrueExpression)
            /\ StructurallyConstant(node.vFalseExpression)
      [] node.type = "Identifier" ->
            /\ node.vReferencedDeclaration.type = "VariableDeclaration"
            /\ node.vReferencedDeclaration.constant
            /\ StructurallyConstant(node.vReferencedDeclaration.vValue)
      [] node.type = "FunctionCall" ->
            /\ node.kind = "typeConversion"
            /\ Len(node.vArguments) = 1
            /\ StructurallyConstant(node.vArguments[1])
      [] OTHER -> FALSE

\* C8: what isConstant returns for a node is what the structural definition
\* gives for it.
C8_IsConstantStructural ==
    \A p \in DOMAIN classified :
        classified[p] = StructurallyConstant(At(expr, p))

\* C8 witness: isConstant has returned false for a BinaryOperation whose left
\* operand is constant and whose right operand is not.
C8_Witness ==
    /\ expr.type = "BinaryOperation"
    /\ StructurallyConstant(expr.vLeftExpression)
    /\ <<>> \in DOMAIN classified /\ ~classified[<<>>]

\* C9: an error that leaves the outermost call carries an expression, and it
\* is the node at which the failure arose.
C9_ErrorCarriesOrigin ==
    (Finished /\ ~ret.out.ok) => (ret.out.has /\ ret.out.expr \in origin)

\* C10: the outermost call ends.
C10_Terminates == <>Finished

\* C10 witness: a call that made recursive calls has ended.
C10_Witness == Finished /\ Cardinality(called) >= 3

====
